---- MODULE Spec2Model ----
(***************************************************************************)
(* Attendance shift/break state machine of the QR attendance API           *)
(* (src/server.js): the four mutating handlers POST /api/checkin,          *)
(* /api/checkout, /api/attendance/break/start and /api/attendance/break/end *)
(* running against the attendance table of src/setup-db.js.                 *)
(*                                                                         *)
(* Every handler is an async function: it runs synchronously up to each    *)
(* `await db.execute(...)`, the statement is executed by the database at a *)
(* later moment, and the handler's continuation runs at a later moment     *)
(* again.  Each statement execution and each synchronous continuation that *)
(* reads the clock is one action; other requests and clock ticks may       *)
(* happen between any two of them.                                         *)
(***************************************************************************)
EXTENDS Integers, Sequences, FiniteSets, TLC

\* ---------------------------------------------------------------- bounds
MaxTime == 2        \* the clock runs over 0..MaxTime
DayLen == 2         \* clock units per calendar day
MaxReqs == 3        \* requests issued in one behaviour
MsPerUnit == 30000  \* milliseconds per clock unit (the calendar is scaled down)
MaxSeqReqs == 4     \* requests issued in one behaviour of calls made one at a time
MaxDbCalls == 5     \* calls of initDB, getDB and closeDB in one behaviour

MsPerMinute == 60000    \* 1000 * 60

StaffIds == {"S1", "S2"}     \* rows of the staff table
Procs == {1, 2}              \* request slots: two requests can be in flight at once

VARIABLES
  attendance,   \* the attendance table: a set of rows
  now,          \* the wall clock (new Date() and NOW())
  pc,           \* per request slot: where its handler stands
  req,          \* per request slot: the request (op, staffId, role)
  loc,          \* per request slot: the handler's local variables
  resp,         \* per request slot: the response sent
  nreq,         \* requests that may still be issued
  trace,        \* history: per staffId, its calls in response order, kept
                \* while no two requests of that staffId have overlapped
  overlap,      \* history: per staffId, TRUE once two of its requests overlapped
  okCheckIns,   \* history: the <<staffId, date>> pairs a check-in succeeded for
  aux,          \* history: per request slot, facts about the current request
  pool,         \* db.js: the module variable `pool` (0: undefined or null)
  npools,       \* db.js: connection pools created so far
  dpc,          \* db.js: per caller, where its initDB or closeDB call stands
  dret,         \* db.js: per caller, the outcome of its last call
  dcalls,       \* db.js: calls that may still be made
  life,         \* history: what has happened to the current pool
  sinceClose,   \* history: pools created since closeDB was last called
  photo,        \* staff.photo: per staff row, the file it names, or NoFile
  files,        \* the files in the staff uploads directory
  ppc,          \* per photo request slot: where its handler stands
  preq,         \* per photo request slot: the request (op, staffId, role, file)
  pstatus,      \* per photo request slot: the status of the response, 0 if none
  pcalls,       \* photo requests that may still be made
  pclock        \* Date.now() when the last file name was made

avars ==
  <<attendance, now, pc, req, loc, resp, nreq, trace, overlap, okCheckIns, aux>>

dbvars == <<pool, npools, dpc, dret, dcalls, life, sinceClose>>

pvars == <<photo, files, ppc, preq, pstatus, pcalls, pclock>>

vars == <<avars, dbvars, pvars>>

\* ------------------------------------------------------------ data model
\* A DATETIME column that is NULL is <<>>, one holding t is <<t>>.
SqlNull == <<>>
SqlTime(t) == <<t>>

\* The breaks column: NULL (never written) or the text JSON.stringify wrote.
NullBreaks == [tag |-> "null", arr |-> <<>>]

\* today = new Date().toISOString().split('T')[0]
DateOf(t) == t \div DayLen

\* new Date(isoString): the instant in milliseconds
ToMs(t) == t * MsPerUnit

\* Math.round((breakEnd - breakStart) / (1000 * 60))
BreakMinutesRounded(startMs, endMs) ==
  (2 * (endMs - startMs) + MsPerMinute) \div (2 * MsPerMinute)

\* Math.floor((breakEnd - breakStart) / (1000 * 60))
BreakMinutes(startMs, endMs) == (endMs - startMs) \div MsPerMinute

\* record.breaks -> the local array `breaks`
ParseBreaks(col) == IF col.tag = "array" THEN col.arr ELSE <<>>

\* JSON.stringify(breaks)
Stringify(brks) == [tag |-> "array", arr |-> brks]

\* Array elements that are no break objects: the JSON value null and a JSON
\* scalar such as 5.
JsonNull == [json |-> "null"]
JsonScalar == [json |-> "scalar"]

\* brk.start and b.start throw a TypeError when the element is null (a scalar
\* has no start and reads as undefined).  map visits every element; some and
\* findIndex stop at the first active one.
MapThrows(brks) == \E i \in 1..Len(brks) : brks[i] = JsonNull

\* b.end && !b.start
HasEndedNotStarted(brks) ==
  \E i \in 1..Len(brks) : "end" \in DOMAIN brks[i] /\ "start" \notin DOMAIN brks[i]

\* b.start && !b.end
IsActive(b) == "start" \in DOMAIN b /\ "end" \notin DOMAIN b

\* breaks.some(b => b.start && !b.end)
HasActiveBreak(brks) == \E i \in 1..Len(brks) : IsActive(brks[i])

SomeThrows(brks) ==
  \E i \in 1..Len(brks) :
    brks[i] = JsonNull /\ \A j \in 1..(i - 1) : ~IsActive(brks[j])

\* breaks.findIndex(b => b.start && !b.end); 0 stands for -1
FindActive(brks) ==
  IF HasActiveBreak(brks)
  THEN CHOOSE i \in 1..Len(brks) :
         IsActive(brks[i]) /\ \A j \in 1..(i - 1) : ~IsActive(brks[j])
  ELSE 0

\* breaks.map(brk => brk.start && !brk.end ? {start, end: now, auto_ended: true} : brk)
AutoEndNoFlag(brks, t) ==
  [i \in 1..Len(brks) |->
     IF IsActive(brks[i]) THEN [start |-> brks[i].start, end |-> t] ELSE brks[i]]

\* breaks.map(brk => ({start: brk.start, end: now, auto_ended: true}))
AutoEndAll(brks, t) ==
  [i \in 1..Len(brks) |-> [start |-> brks[i].start, end |-> t, auto_ended |-> TRUE]]

AutoEnd(brks, t) ==
  [i \in 1..Len(brks) |->
     IF IsActive(brks[i])
     THEN [start |-> brks[i].start, end |-> t, auto_ended |-> TRUE]
     ELSE brks[i]]

\* breaks[i].end = t
SetEnd(brks, i, t) ==
  [brks EXCEPT ![i] =
     [k \in (DOMAIN brks[i]) \cup {"end"} |-> IF k = "end" THEN t ELSE brks[i][k]]]

\* ------------------------------------------------------------- the store
\* SELECT * FROM attendance WHERE staff_id = ? AND date = ?
ExistingOpenOnly(s, d) ==
  {r \in attendance : r.staff_id = s /\ r.date = d /\ r.check_out = SqlNull}

Existing(s, d) == {r \in attendance : r.staff_id = s /\ r.date = d}

\* ... WHERE staff_id = ?
AllRecords(s) == {r \in attendance : r.staff_id = s}

\* ... WHERE staff_id = ? AND check_out IS NULL
OpenRecords(s) == {r \in attendance : r.staff_id = s /\ r.check_out = SqlNull}

\* ... ORDER BY check_in ASC LIMIT 1
EarliestOpen(s) ==
  {r \in OpenRecords(s) : \A o \in OpenRecords(s) : r.check_in[1] <= o.check_in[1]}

\* ... ORDER BY check_in DESC LIMIT 1: the rows the statement may return
LatestOpen(s) ==
  {r \in OpenRecords(s) : \A o \in OpenRecords(s) : o.check_in[1] <= r.check_in[1]}

\* SELECT COALESCE(MAX(id), 0) + 1
NextId ==
  IF attendance = {} THEN 1
  ELSE (CHOOSE m \in {r.id : r \in attendance} :
          \A r \in attendance : r.id <= m) + 1

\* The keys of CREATE TABLE attendance an INSERT is checked against.
InsertOutcomeNoUnique(id, s, d) ==
  IF \E r \in attendance : r.id = id THEN "dup_primary" ELSE "ok"

InsertOutcome(id, s, d) ==
  IF \E r \in attendance : r.id = id THEN "dup_primary"
  ELSE IF \E r \in attendance : r.staff_id = s /\ r.date = d THEN "dup_staff_date"
  ELSE "ok"

\* INSERT INTO attendance (id, staff_id, date, check_in, check_out)
\*   VALUES (?, ?, ?, NOW(), NOW())
NewRowClosed(id, s, d) ==
  [id |-> id, staff_id |-> s, date |-> d, check_in |-> SqlTime(now),
   check_out |-> SqlTime(now), breaks |-> NullBreaks]

\* INSERT INTO attendance (id, staff_id, date, check_in) VALUES (?, ?, ?, NOW())
NewRow(id, s, d) ==
  [id |-> id, staff_id |-> s, date |-> d, check_in |-> SqlTime(now),
   check_out |-> SqlNull, breaks |-> NullBreaks]

\* UPDATE attendance SET check_out = NOW(), breaks = ? WHERE id = ?
UpdateCheckOut(id, col) ==
  {IF r.id = id THEN [r EXCEPT !.check_out = SqlTime(now), !.breaks = col] ELSE r
     : r \in attendance}

\* UPDATE attendance SET breaks = ? WHERE id = ?
UpdateBreaks(id, col) ==
  {IF r.id = id THEN [r EXCEPT !.breaks = col] ELSE r : r \in attendance}

\* ------------------------------------------------------- request slots
NoRecord ==
  [id |-> 0, staff_id |-> "", date |-> 0, check_in |-> SqlNull,
   check_out |-> SqlNull, breaks |-> NullBreaks]

InitLoc ==
  [today |-> 0, nextId |-> 0, record |-> NoRecord, breaks |-> <<>>,
   breaksAutoEnded |-> FALSE, now |-> 0, activeBreakIndex |-> 0]

NoResp ==
  [kind |-> "none", details |-> "", breaks_auto_ended |-> FALSE, time |-> 0,
   break_duration_minutes |-> 0]

Reply(kind) == [NoResp EXCEPT !.kind = kind]

NoReq == [op |-> "none", staffId |-> "", role |-> ""]

\* History of the request in a slot: the slots whose request overlapped it (conc),
\* whether no request of the same staffId overlapped it (alone), the date it
\* read, what held when it was issued (prior: a check-in for its staffId and
\* date had succeeded; noRecord: no row for its staffId and date; openNoBreak;
\* oneOpen) and what it did (passed the duplicate test, inserted a row, wrote).
InitAux ==
  [conc |-> {}, alone |-> TRUE, today |-> 0, prior |-> FALSE, noRecord |-> FALSE,
   passed |-> FALSE, inserted |-> FALSE, openNoBreak |-> FALSE, oneOpen |-> FALSE,
   wrote |-> FALSE, onBreak |-> FALSE, noOpen |-> FALSE]

InFlight(p) == pc[p] \notin {"idle", "done"}

\* ------------------------------------------------- the store handle (db.js)
DbProcs == {1, 2}            \* callers of initDB, getDB and closeDB

NoRet == [call |-> "none", val |-> 0, threw |-> FALSE, life |-> "none"]

PhotoProcs == {1, 2}         \* photo request slots

UnknownId == "S0"            \* a staffId with no row in the staff table

NoFile == <<>>               \* staff.photo IS NULL; req.file undefined

NoPhotoReq == [op |-> "none", staffId |-> "", role |-> "", file |-> NoFile]

\* No photo request is made: no row names a photo, the directory is empty.
PhotoIdle ==
  /\ photo = [s \in StaffIds |-> NoFile]
  /\ files = {}
  /\ ppc = [p \in PhotoProcs |-> "idle"]
  /\ preq = [p \in PhotoProcs |-> NoPhotoReq]
  /\ pstatus = [p \in PhotoProcs |-> 0]
  /\ pcalls = 0
  /\ pclock = 0

\* server.js has awaited initDB() before it serves requests: one pool, tested.
DbReady ==
  /\ pool = 1
  /\ npools = 1
  /\ dpc = [c \in DbProcs |-> "idle"]
  /\ dret = [c \in DbProcs |-> NoRet]
  /\ dcalls = 0
  /\ life = "ready"
  /\ sinceClose = 1

Init ==
  /\ attendance = {}
  /\ now = 0
  /\ pc = [p \in Procs |-> "idle"]
  /\ req = [p \in Procs |-> NoReq]
  /\ loc = [p \in Procs |-> InitLoc]
  /\ resp = [p \in Procs |-> NoResp]
  /\ nreq = MaxReqs
  /\ trace = [s \in StaffIds |-> <<>>]
  /\ overlap = [s \in StaffIds |-> FALSE]
  /\ okCheckIns = {}
  /\ aux = [p \in Procs |-> InitAux]
  /\ DbReady
  /\ PhotoIdle

\* The clock advances.
Tick ==
  /\ now < MaxTime
  /\ now' = now + 1
  /\ UNCHANGED <<attendance, pc, req, resp, nreq, trace, overlap, okCheckIns, aux>>
  /\ UNCHANGED loc
  /\ UNCHANGED <<dbvars, pvars>>

\* Slot p is the first free slot: slots are interchangeable, so a new request
\* always takes the lowest-numbered one.
FirstFree(p) == ~InFlight(p) /\ \A q \in Procs : q < p => InFlight(q)

Busy(s) == {q \in Procs : InFlight(q) /\ req[q].staffId = s}

\* History kept when slot p takes a new request for staff s.
Issue(p, s, a) ==
  /\ FirstFree(p)
  /\ nreq > 0
  /\ nreq' = nreq - 1
  /\ resp' = [resp EXCEPT ![p] = NoResp]
  /\ overlap' = [overlap EXCEPT ![s] = @ \/ Busy(s) # {}]
  /\ trace' = [trace EXCEPT ![s] = IF Busy(s) # {} THEN <<>> ELSE @]
  /\ aux' = [q \in Procs |->
               IF q = p
               THEN [a EXCEPT !.conc = {x \in Procs : InFlight(x)},
                              !.alone = (Busy(s) = {})]
               ELSE IF InFlight(q)
               THEN [aux[q] EXCEPT !.conc = @ \cup {p},
                                   !.alone = @ /\ req[q].staffId # s]
               ELSE [aux[q] EXCEPT !.conc = @ \ {p}]]
  /\ UNCHANGED <<dbvars, pvars>>

\* res.json(...) / res.status(...).json(...): the handler of slot p ends and its
\* locals are gone.
Respond(p, r) ==
  /\ pc' = [pc EXCEPT ![p] = "done"]
  /\ resp' = [resp EXCEPT ![p] = r]
  /\ loc' = [loc EXCEPT ![p] = InitLoc]
  /\ trace' = [trace EXCEPT ![req[p].staffId] =
                 IF overlap[req[p].staffId] THEN <<>>
                 ELSE Append(@, [op |-> req[p].op, kind |-> r.kind,
                                 breaks_auto_ended |-> r.breaks_auto_ended])]
  /\ okCheckIns' = IF req[p].op = "checkin" /\ r.kind = "ok"
                   THEN okCheckIns \cup {<<req[p].staffId, loc[p].today>>}
                   ELSE okCheckIns
  /\ UNCHANGED <<dbvars, pvars>>

\* The handler of slot p goes on to label l with its locals set to l2.
Goto(p, l, l2) ==
  /\ pc' = [pc EXCEPT ![p] = l]
  /\ loc' = [loc EXCEPT ![p] = l2]
  /\ UNCHANGED <<resp, trace, okCheckIns>>
  /\ UNCHANGED <<dbvars, pvars>>

\* ------------------------------------------------------ POST /api/checkin
CheckInBegin(p, s) ==
  /\ Issue(p, s, [InitAux EXCEPT !.today = DateOf(now),
                                  !.prior = <<s, DateOf(now)>> \in okCheckIns,
                                  !.noRecord = (Existing(s, DateOf(now)) = {})])
  /\ req' = [req EXCEPT ![p] = [op |-> "checkin", staffId |-> s, role |-> ""]]
  /\ loc' = [loc EXCEPT ![p] = [InitLoc EXCEPT !.today = DateOf(now)]]
  /\ pc' = [pc EXCEPT ![p] = "ci_select"]
  /\ UNCHANGED <<attendance, now, okCheckIns>>

CheckInSelect(p) ==
  /\ pc[p] = "ci_select"
  /\ IF Existing(req[p].staffId, loc[p].today) # {}
     THEN /\ Respond(p, Reply("AlreadyCheckedIn"))
          /\ UNCHANGED aux
     ELSE /\ Goto(p, "ci_maxid", loc[p])
          /\ aux' = [aux EXCEPT ![p].passed = TRUE]
  /\ UNCHANGED <<attendance, now, req, nreq, overlap>>

CheckInMaxId(p) ==
  /\ pc[p] = "ci_maxid"
  /\ Goto(p, "ci_insert", [loc[p] EXCEPT !.nextId = NextId])
  /\ UNCHANGED <<attendance, now, req, nreq, overlap, aux>>

\* The INSERT with a retry: on a duplicate key the handler reads MAX(id) again.
CheckInInsertRetry(p) ==
  /\ pc[p] = "ci_insert"
  /\ LET out == InsertOutcome(loc[p].nextId, req[p].staffId, loc[p].today) IN
       IF out = "ok"
       THEN /\ attendance' = attendance \cup
                   {NewRow(loc[p].nextId, req[p].staffId, loc[p].today)}
            /\ aux' = [aux EXCEPT ![p].inserted = TRUE]
            /\ Goto(p, "ci_name", loc[p])
       ELSE /\ Goto(p, "ci_maxid", loc[p])
            /\ UNCHANGED <<attendance, aux>>
  /\ UNCHANGED <<now, req, nreq, overlap>>

CheckInInsert(p) ==
  /\ pc[p] = "ci_insert"
  /\ LET out == InsertOutcome(loc[p].nextId, req[p].staffId, loc[p].today) IN
       IF out = "ok"
       THEN /\ attendance' = attendance \cup
                   {NewRow(loc[p].nextId, req[p].staffId, loc[p].today)}
            /\ aux' = [aux EXCEPT ![p].inserted = TRUE]
            /\ Goto(p, "ci_name", loc[p])
       ELSE \* the driver throws; catch (e) answers 500 with e.message
            /\ Respond(p, [Reply("Infra") EXCEPT !.details = out])
            /\ UNCHANGED <<attendance, aux>>
  /\ UNCHANGED <<now, req, nreq, overlap>>

CheckInName(p) ==
  /\ pc[p] = "ci_name"
  /\ Respond(p, Reply("ok"))
  /\ UNCHANGED <<attendance, now, req, nreq, overlap, aux>>

\* const { staffId } = req.body with no staffId: the bind parameter is undefined
\* and db.execute throws before any statement is sent.
CheckInNoStaffId(p) ==
  /\ FirstFree(p)
  /\ nreq > 0
  /\ nreq' = nreq - 1
  /\ req' = [req EXCEPT ![p] = [op |-> "checkin", staffId |-> "", role |-> ""]]
  /\ pc' = [pc EXCEPT ![p] = "done"]
  /\ resp' = [resp EXCEPT ![p] = [Reply("Infra") EXCEPT !.details = "undefined_bind"]]
  /\ aux' = [q \in Procs |->
               IF q = p THEN InitAux ELSE [aux[q] EXCEPT !.conc = @ \ {p}]]
  /\ UNCHANGED <<attendance, now, loc, trace, overlap, okCheckIns>>
  /\ UNCHANGED <<dbvars, pvars>>

\* What holds of staffId s when a request is issued: it has no record with
\* check_out NULL; it has one and every such record holds an active break.
NoOpen(s) == \A r \in attendance : r.staff_id = s => r.check_out # SqlNull

OnBreak(s) ==
  /\ ~NoOpen(s)
  /\ \A r \in attendance :
       (r.staff_id = s /\ r.check_out = SqlNull) =>
         \E i \in 1..Len(r.breaks.arr) : IsActive(r.breaks.arr[i])

\* ----------------------------------------------------- POST /api/checkout
\* if (!staffId) return 400; and, in the break handlers, the admin gate before it.
EarlyReturn(p, op, s, role, kind) ==
  /\ FirstFree(p)
  /\ nreq > 0
  /\ nreq' = nreq - 1
  /\ req' = [req EXCEPT ![p] = [op |-> op, staffId |-> s, role |-> role]]
  /\ pc' = [pc EXCEPT ![p] = "done"]
  /\ resp' = [resp EXCEPT ![p] = Reply(kind)]
  /\ aux' = [q \in Procs |->
               IF q = p THEN InitAux ELSE [aux[q] EXCEPT !.conc = @ \ {p}]]
  /\ UNCHANGED <<attendance, now, loc, trace, overlap, okCheckIns>>
  /\ UNCHANGED <<dbvars, pvars>>

CheckOutNoStaffId(p) == EarlyReturn(p, "checkout", "", "", "BadRequest")

CheckOutBegin(p, s) ==
  /\ Issue(p, s, [InitAux EXCEPT !.oneOpen = (Cardinality(OpenRecords(s)) = 1),
                                  !.noOpen = NoOpen(s)])
  /\ req' = [req EXCEPT ![p] = [op |-> "checkout", staffId |-> s, role |-> ""]]
  /\ loc' = [loc EXCEPT ![p] = InitLoc]
  /\ pc' = [pc EXCEPT ![p] = "co_select"]
  /\ UNCHANGED <<attendance, now, okCheckIns>>

CheckOutSelect(p) ==
  /\ pc[p] = "co_select"
  /\ IF LatestOpen(req[p].staffId) = {}
     THEN Respond(p, Reply("NoOpenShift"))
     ELSE \E r \in LatestOpen(req[p].staffId) :
            Goto(p, "co_map", [loc[p] EXCEPT !.record = r])
  /\ UNCHANGED <<attendance, now, req, nreq, overlap, aux>>

\* The continuation after the SELECT: parse record.breaks, close the active
\* entries with new Date().
CheckOutMap(p) ==
  /\ pc[p] = "co_map"
  /\ LET brks == ParseBreaks(loc[p].record.breaks) IN
       IF MapThrows(brks)
       THEN Respond(p, [Reply("Infra") EXCEPT !.details = "type_error"])
       ELSE Goto(p, "co_update",
                 [loc[p] EXCEPT !.breaksAutoEnded = HasActiveBreak(brks),
                                !.breaks = AutoEnd(brks, now)])
  /\ UNCHANGED <<attendance, now, req, nreq, overlap, aux>>

CheckOutUpdate(p) ==
  /\ pc[p] = "co_update"
  /\ attendance' = UpdateCheckOut(loc[p].record.id, Stringify(loc[p].breaks))
  /\ aux' = [aux EXCEPT ![p].wrote = TRUE]
  /\ Goto(p, "co_name", loc[p])
  /\ UNCHANGED <<now, req, nreq, overlap>>

CheckOutName(p) ==
  /\ pc[p] = "co_name"
  /\ Respond(p, [Reply("ok") EXCEPT !.breaks_auto_ended = loc[p].breaksAutoEnded])
  /\ UNCHANGED <<attendance, now, req, nreq, overlap, aux>>

\* --------------------------------------- POST /api/attendance/break/start
\* The staffId's latest open record exists and has no active break.
OpenNoBreak(s) ==
  /\ LatestOpen(s) # {}
  /\ \A r \in LatestOpen(s) : ~HasActiveBreak(ParseBreaks(r.breaks))

\* The handler without the role test: a request of a principal that is no admin
\* goes on to the SELECT.
StartBreakNoGate(p, s) ==
  /\ s \in StaffIds
  /\ Issue(p, s, InitAux)
  /\ req' = [req EXCEPT ![p] = [op |-> "break_start", staffId |-> s, role |-> "staff"]]
  /\ loc' = [loc EXCEPT ![p] = InitLoc]
  /\ pc' = [pc EXCEPT ![p] = "bs_select"]
  /\ UNCHANGED <<attendance, now, okCheckIns>>

\* if (req.user.role !== 'admin') return 403, whatever staffId the body holds
\* (s is "" when it holds none).
StartBreakNotAdmin(p, s) == EarlyReturn(p, "break_start", s, "staff", "Forbidden")

StartBreakNoStaffId(p) == EarlyReturn(p, "break_start", "", "admin", "BadRequest")

StartBreakBegin(p, s) ==
  /\ Issue(p, s, [InitAux EXCEPT !.openNoBreak = OpenNoBreak(s),
                                  !.onBreak = OnBreak(s),
                                  !.noOpen = NoOpen(s)])
  /\ req' = [req EXCEPT ![p] = [op |-> "break_start", staffId |-> s, role |-> "admin"]]
  /\ loc' = [loc EXCEPT ![p] = InitLoc]
  /\ pc' = [pc EXCEPT ![p] = "bs_select"]
  /\ UNCHANGED <<attendance, now, okCheckIns>>

StartBreakSelect(p) ==
  /\ pc[p] = "bs_select"
  /\ IF LatestOpen(req[p].staffId) = {}
     THEN Respond(p, Reply("NoOpenShift"))
     ELSE \E r \in LatestOpen(req[p].staffId) :
            Goto(p, "bs_check", [loc[p] EXCEPT !.record = r])
  /\ UNCHANGED <<attendance, now, req, nreq, overlap, aux>>

\* The continuation after the SELECT: parse, test for an active break, push.
StartBreakCheck(p) ==
  /\ pc[p] = "bs_check"
  /\ LET brks == ParseBreaks(loc[p].record.breaks) IN
       IF SomeThrows(brks)
       THEN Respond(p, [Reply("Infra") EXCEPT !.details = "type_error"])
       ELSE IF HasActiveBreak(brks)
       THEN Respond(p, Reply("AlreadyOnBreak"))
       ELSE Goto(p, "bs_update",
                 [loc[p] EXCEPT !.now = now,
                                !.breaks = Append(brks, [start |-> now])])
  /\ UNCHANGED <<attendance, now, req, nreq, overlap, aux>>

StartBreakUpdate(p) ==
  /\ pc[p] = "bs_update"
  /\ attendance' = UpdateBreaks(loc[p].record.id, Stringify(loc[p].breaks))
  /\ aux' = [aux EXCEPT ![p].wrote = TRUE]
  /\ Goto(p, "bs_name", loc[p])
  /\ UNCHANGED <<now, req, nreq, overlap>>

StartBreakName(p) ==
  /\ pc[p] = "bs_name"
  /\ Respond(p, [Reply("ok") EXCEPT !.time = loc[p].now])
  /\ UNCHANGED <<attendance, now, req, nreq, overlap, aux>>

\* ----------------------------------------- POST /api/attendance/break/end
EndBreakNotAdmin(p, s) == EarlyReturn(p, "break_end", s, "staff", "Forbidden")

EndBreakNoStaffId(p) == EarlyReturn(p, "break_end", "", "admin", "BadRequest")

EndBreakBegin(p, s) ==
  /\ Issue(p, s, [InitAux EXCEPT !.openNoBreak = OpenNoBreak(s),
                                  !.noOpen = NoOpen(s)])
  /\ req' = [req EXCEPT ![p] = [op |-> "break_end", staffId |-> s, role |-> "admin"]]
  /\ loc' = [loc EXCEPT ![p] = InitLoc]
  /\ pc' = [pc EXCEPT ![p] = "be_select"]
  /\ UNCHANGED <<attendance, now, okCheckIns>>

EndBreakSelect(p) ==
  /\ pc[p] = "be_select"
  /\ IF LatestOpen(req[p].staffId) = {}
     THEN Respond(p, Reply("NoOpenShift"))
     ELSE \E r \in LatestOpen(req[p].staffId) :
            Goto(p, "be_check", [loc[p] EXCEPT !.record = r])
  /\ UNCHANGED <<attendance, now, req, nreq, overlap, aux>>

\* The continuation after the SELECT without the test of activeBreakIndex.
EndBreakCheckNoTest(p) ==
  /\ pc[p] = "be_check"
  /\ Goto(p, "be_update",
          [loc[p] EXCEPT !.now = now, !.breaks = ParseBreaks(loc[p].record.breaks)])
  /\ UNCHANGED <<attendance, now, req, nreq, overlap, aux>>

\* The continuation after the SELECT: parse, find the active break, set its end.
EndBreakCheck(p) ==
  /\ pc[p] = "be_check"
  /\ LET brks == ParseBreaks(loc[p].record.breaks)
         i == FindActive(brks) IN
       IF SomeThrows(brks)
       THEN Respond(p, [Reply("Infra") EXCEPT !.details = "type_error"])
       ELSE IF i = 0
       THEN Respond(p, Reply("NoActiveBreak"))
       ELSE Goto(p, "be_update",
                 [loc[p] EXCEPT !.now = now, !.activeBreakIndex = i,
                                !.breaks = SetEnd(brks, i, now)])
  /\ UNCHANGED <<attendance, now, req, nreq, overlap, aux>>

EndBreakUpdate(p) ==
  /\ pc[p] = "be_update"
  /\ attendance' = UpdateBreaks(loc[p].record.id, Stringify(loc[p].breaks))
  /\ aux' = [aux EXCEPT ![p].wrote = TRUE]
  /\ Goto(p, "be_name", loc[p])
  /\ UNCHANGED <<now, req, nreq, overlap>>

EndBreakName(p) ==
  /\ pc[p] = "be_name"
  /\ Respond(p, [Reply("ok") EXCEPT
                   !.time = loc[p].now,
                   !.break_duration_minutes =
                      BreakMinutes(ToMs(loc[p].breaks[loc[p].activeBreakIndex].start),
                                   ToMs(loc[p].now))])
  /\ UNCHANGED <<attendance, now, req, nreq, overlap, aux>>

\* ------------------------------------------------------ the specification
Next ==
  \/ Tick
  \/ \E p \in Procs, s \in StaffIds : CheckInBegin(p, s)
  \/ \E p \in Procs : CheckInNoStaffId(p)
  \/ \E p \in Procs : CheckInSelect(p)
  \/ \E p \in Procs : CheckInMaxId(p)
  \/ \E p \in Procs : CheckInInsert(p)
  \/ \E p \in Procs : CheckInName(p)
  \/ \E p \in Procs, s \in StaffIds : CheckOutBegin(p, s)
  \/ \E p \in Procs : CheckOutNoStaffId(p)
  \/ \E p \in Procs : CheckOutSelect(p)
  \/ \E p \in Procs : CheckOutMap(p)
  \/ \E p \in Procs : CheckOutUpdate(p)
  \/ \E p \in Procs : CheckOutName(p)
  \/ \E p \in Procs, s \in StaffIds : StartBreakBegin(p, s)
  \/ \E p \in Procs : StartBreakNotAdmin(p, "")
  \/ \E p \in Procs : StartBreakNoStaffId(p)
  \/ \E p \in Procs : StartBreakSelect(p)
  \/ \E p \in Procs : StartBreakCheck(p)
  \/ \E p \in Procs : StartBreakUpdate(p)
  \/ \E p \in Procs : StartBreakName(p)
  \/ \E p \in Procs, s \in StaffIds : EndBreakBegin(p, s)
  \/ \E p \in Procs : EndBreakNotAdmin(p, "")
  \/ \E p \in Procs : EndBreakNoStaffId(p)
  \/ \E p \in Procs : EndBreakSelect(p)
  \/ \E p \in Procs : EndBreakCheck(p)
  \/ \E p \in Procs : EndBreakUpdate(p)
  \/ \E p \in Procs : EndBreakName(p)

Spec == Init /\ [][Next]_vars

\* ------------------------------------------- the store may fail a statement
\* The labels at which a handler awaits db.execute(...).
StoreLabels ==
  {"ci_select", "ci_maxid", "ci_insert", "ci_name",
   "co_select", "co_update", "co_name",
   "bs_select", "bs_update", "bs_name",
   "be_select", "be_update", "be_name"}

\* db.execute rejects (connection lost, timeout): the statement has no effect, the
\* handler's catch (e) answers 500.
StoreFails(p) ==
  /\ pc[p] \in StoreLabels
  /\ Respond(p, [Reply("Infra") EXCEPT !.details = "store_error"])
  /\ UNCHANGED <<attendance, now, req, nreq, overlap, aux>>

\* ------------------------------- a table holding a malformed breaks value
\* Values of the breaks column no handler writes: the empty string, text that
\* is no JSON, JSON that is no array, arrays holding elements that are no break
\* objects.  NULL is what the INSERT leaves.
MalformedCols ==
  {NullBreaks,
   [tag |-> "empty", arr |-> <<>>],
   [tag |-> "garbage", arr |-> <<>>],
   [tag |-> "object", arr |-> <<>>],
   [tag |-> "array", arr |-> <<JsonScalar>>],
   [tag |-> "array", arr |-> <<JsonNull>>]}

\* The table holds one open record of S1 with such a value.
InitM ==
  /\ \E col \in MalformedCols :
       attendance = {[id |-> 1, staff_id |-> "S1", date |-> 0,
                      check_in |-> SqlTime(0), check_out |-> SqlNull,
                      breaks |-> col]}
  /\ now = 0
  /\ pc = [p \in Procs |-> "idle"]
  /\ req = [p \in Procs |-> NoReq]
  /\ loc = [p \in Procs |-> InitLoc]
  /\ resp = [p \in Procs |-> NoResp]
  /\ nreq = MaxReqs
  /\ trace = [s \in StaffIds |-> <<>>]
  /\ overlap = [s \in StaffIds |-> FALSE]
  /\ okCheckIns = {}
  /\ aux = [p \in Procs |-> InitAux]
  /\ DbReady
  /\ PhotoIdle

SpecM == InitM /\ [][Next]_vars

NextF == Next \/ \E p \in Procs : StoreFails(p)

\* ------------------------------------------------ every handler runs on
\* One step of the handler in slot p: the store answers the statement it awaits
\* (or fails it) and the continuation runs.
HandlerStep(p) ==
  \/ CheckInSelect(p) \/ CheckInMaxId(p) \/ CheckInInsert(p) \/ CheckInName(p)
  \/ CheckOutSelect(p) \/ CheckOutMap(p) \/ CheckOutUpdate(p) \/ CheckOutName(p)
  \/ StartBreakSelect(p) \/ StartBreakCheck(p) \/ StartBreakUpdate(p)
  \/ StartBreakName(p)
  \/ EndBreakSelect(p) \/ EndBreakCheck(p) \/ EndBreakUpdate(p) \/ EndBreakName(p)
  \/ StoreFails(p)

\* The tables the handlers are started on: empty, holding an open record of S1
\* without breaks (after a CheckIn), holding one with an active break (after a
\* StartBreak).
SeedTables ==
  {{}} \cup
  {{[id |-> 1, staff_id |-> "S1", date |-> 0, check_in |-> SqlTime(0),
     check_out |-> SqlNull, breaks |-> col]}
     : col \in {NullBreaks, Stringify(<<[start |-> 0]>>)}}

\* Every slot takes one request.
InitL ==
  /\ attendance \in SeedTables
  /\ now = 0
  /\ pc = [p \in Procs |-> "idle"]
  /\ req = [p \in Procs |-> NoReq]
  /\ loc = [p \in Procs |-> InitLoc]
  /\ resp = [p \in Procs |-> NoResp]
  /\ nreq = Cardinality(Procs)
  /\ trace = [s \in StaffIds |-> <<>>]
  /\ overlap = [s \in StaffIds |-> FALSE]
  /\ okCheckIns = {<<r.staff_id, r.date>> : r \in attendance}
  /\ aux = [p \in Procs |-> InitAux]
  /\ DbReady
  /\ PhotoIdle

\* Every store call returns or fails, and the event loop runs every continuation
\* that is ready.
SpecL == InitL /\ [][NextF]_vars /\ \A p \in Procs : WF_vars(HandlerStep(p))

\* --------------------------- break requests of principals that are no admin
\* Such requests name a staffId; every slot takes one request.
NextG ==
  \/ Next
  \/ \E p \in Procs, s \in StaffIds : StartBreakNotAdmin(p, s)
  \/ \E p \in Procs, s \in StaffIds : EndBreakNotAdmin(p, s)

SpecG == InitL /\ [][NextG]_vars

\* ------------------------------------- a table holding a shift on break
\* The state a CheckIn(S1) and a StartBreak(S1) at time 0 leave behind.
InitB ==
  /\ attendance = {[id |-> 1, staff_id |-> "S1", date |-> 0,
                    check_in |-> SqlTime(0), check_out |-> SqlNull,
                    breaks |-> Stringify(<<[start |-> 0]>>)]}
  /\ now = 0
  /\ pc = [p \in Procs |-> "idle"]
  /\ req = [p \in Procs |-> NoReq]
  /\ loc = [p \in Procs |-> InitLoc]
  /\ resp = [p \in Procs |-> NoResp]
  /\ nreq = MaxReqs
  /\ trace = [s \in StaffIds |->
               IF s = "S1"
               THEN <<[op |-> "checkin", kind |-> "ok", breaks_auto_ended |-> FALSE],
                      [op |-> "break_start", kind |-> "ok", breaks_auto_ended |-> FALSE]>>
               ELSE <<>>]
  /\ overlap = [s \in StaffIds |-> FALSE]
  /\ okCheckIns = {<<"S1", 0>>}
  /\ aux = [p \in Procs |-> InitAux]
  /\ DbReady
  /\ PhotoIdle

SpecB == InitB /\ [][Next]_vars

\* --------------------------------------------- calls made one after another
\* The client awaits each response before it sends the next request.
InitQ ==
  /\ attendance = {}
  /\ now = 0
  /\ pc = [p \in Procs |-> "idle"]
  /\ req = [p \in Procs |-> NoReq]
  /\ loc = [p \in Procs |-> InitLoc]
  /\ resp = [p \in Procs |-> NoResp]
  /\ nreq = MaxSeqReqs
  /\ trace = [s \in StaffIds |-> <<>>]
  /\ overlap = [s \in StaffIds |-> FALSE]
  /\ okCheckIns = {}
  /\ aux = [p \in Procs |-> InitAux]
  /\ DbReady
  /\ PhotoIdle

NextQ == Next /\ Cardinality({p \in Procs : pc'[p] \notin {"idle", "done"}}) <= 1

SpecQ == InitQ /\ [][NextQ]_vars

SpecF == Init /\ [][NextF]_vars

\* ------------------------------------------ initDB, getDB, closeDB (db.js)
\* `let pool;` and nothing called yet.
InitDB ==
  /\ attendance = {}
  /\ now = 0
  /\ pc = [p \in Procs |-> "idle"]
  /\ req = [p \in Procs |-> NoReq]
  /\ loc = [p \in Procs |-> InitLoc]
  /\ resp = [p \in Procs |-> NoResp]
  /\ nreq = 0
  /\ trace = [s \in StaffIds |-> <<>>]
  /\ overlap = [s \in StaffIds |-> FALSE]
  /\ okCheckIns = {}
  /\ aux = [p \in Procs |-> InitAux]
  /\ pool = 0
  /\ npools = 0
  /\ dpc = [c \in DbProcs |-> "idle"]
  /\ dret = [c \in DbProcs |-> NoRet]
  /\ dcalls = MaxDbCalls
  /\ life = "none"
  /\ sinceClose = 0
  /\ PhotoIdle

\* A call's outcome; while the call awaits, val is the pool it awaits on.
Ret(call, val, threw) == [call |-> call, val |-> val, threw |-> threw, life |-> life]

\* Caller c makes a call.
DbCall(c) ==
  /\ dpc[c] = "idle"
  /\ dcalls > 0
  /\ dcalls' = dcalls - 1
  /\ UNCHANGED <<avars, pvars>>

\* initDB up to its await: if (pool) return pool; pool = mysql.createPool(config);
\* await pool.getConnection()
InitDBBegin(c) ==
  /\ DbCall(c)
  /\ IF pool # 0
     THEN /\ dret' = [dret EXCEPT ![c] = Ret("initDB", pool, FALSE)]
          /\ UNCHANGED <<pool, npools, dpc, life, sinceClose>>
     ELSE /\ pool' = npools + 1
          /\ npools' = npools + 1
          /\ sinceClose' = sinceClose + 1
          /\ dpc' = [dpc EXCEPT ![c] = "init_test"]
          /\ dret' = [dret EXCEPT ![c] = Ret("awaiting", npools + 1, FALSE)]
          /\ life' = "pending"

\* The connection test succeeds: connection.release(); return pool
InitDBConnected(c) ==
  /\ dpc[c] = "init_test"
  /\ dpc' = [dpc EXCEPT ![c] = "idle"]
  /\ life' = IF life = "pending" /\ pool = dret[c].val THEN "ready" ELSE life
  /\ dret' = [dret EXCEPT ![c] = [Ret("initDB", pool, FALSE) EXCEPT !.life = life']]
  /\ UNCHANGED <<pool, npools, dcalls, sinceClose>>
  /\ UNCHANGED <<avars, pvars>>

\* The connection test throws: catch (error) { throw error }
InitDBFailed(c) ==
  /\ dpc[c] = "init_test"
  /\ dpc' = [dpc EXCEPT ![c] = "idle"]
  /\ life' = IF life = "pending" /\ pool = dret[c].val THEN "failed" ELSE life
  /\ dret' = [dret EXCEPT ![c] = [Ret("initDB", 0, TRUE) EXCEPT !.life = life']]
  /\ UNCHANGED <<pool, npools, dcalls, sinceClose>>
  /\ UNCHANGED <<avars, pvars>>

\* getDB: if (!pool) throw new Error('Database not initialized'); return pool
GetDB(c) ==
  /\ DbCall(c)
  /\ dret' = [dret EXCEPT ![c] = Ret("getDB", pool, pool = 0)]
  /\ UNCHANGED <<pool, npools, dpc, life, sinceClose>>

\* closeDB up to its await: if (pool) { await pool.end(); ...
CloseDBBegin(c) ==
  /\ DbCall(c)
  /\ IF pool # 0
     THEN /\ dpc' = [dpc EXCEPT ![c] = "close_end"]
          /\ dret' = [dret EXCEPT ![c] = Ret("awaiting", pool, FALSE)]
     ELSE /\ dret' = [dret EXCEPT ![c] = Ret("closeDB", 0, FALSE)]
          /\ UNCHANGED dpc
  /\ sinceClose' = 0
  /\ UNCHANGED <<pool, npools, life>>

\* pool.end() resolves: pool = null
CloseDBEnded(c) ==
  /\ dpc[c] = "close_end"
  /\ dpc' = [dpc EXCEPT ![c] = "idle"]
  /\ pool' = 0
  /\ life' = "closed"
  /\ dret' = [dret EXCEPT ![c] = [Ret("closeDB", 0, FALSE) EXCEPT !.life = "closed"]]
  /\ UNCHANGED <<npools, dcalls, sinceClose>>
  /\ UNCHANGED <<avars, pvars>>

\* pool.end() rejects: closeDB rejects and `pool` keeps its value
CloseDBEndFails(c) ==
  /\ dpc[c] = "close_end"
  /\ dpc' = [dpc EXCEPT ![c] = "idle"]
  /\ dret' = [dret EXCEPT ![c] = Ret("closeDB", 0, TRUE)]
  /\ UNCHANGED <<pool, npools, dcalls, life, sinceClose>>
  /\ UNCHANGED <<avars, pvars>>

NextDB ==
  \/ \E c \in DbProcs : InitDBBegin(c)
  \/ \E c \in DbProcs : InitDBConnected(c)
  \/ \E c \in DbProcs : InitDBFailed(c)
  \/ \E c \in DbProcs : GetDB(c)
  \/ \E c \in DbProcs : CloseDBBegin(c)
  \/ \E c \in DbProcs : CloseDBEnded(c)
  \/ \E c \in DbProcs : CloseDBEndFails(c)

SpecDB == InitDB /\ [][NextDB]_vars

\* ------------------------- POST /api/staff/photo, DELETE /api/staff/:staffId/photo
MaxPhotoCalls == 3           \* photo requests made in one behaviour

MaxStamp == 1                \* the last value of Date.now() a file name is made of

\* The staff table and the uploads directory before any photo request.
InitP ==
  /\ attendance = {}
  /\ now = 0
  /\ pc = [p \in Procs |-> "idle"]
  /\ req = [p \in Procs |-> NoReq]
  /\ loc = [p \in Procs |-> InitLoc]
  /\ resp = [p \in Procs |-> NoResp]
  /\ nreq = 0
  /\ trace = [s \in StaffIds |-> <<>>]
  /\ overlap = [s \in StaffIds |-> FALSE]
  /\ okCheckIns = {}
  /\ aux = [p \in Procs |-> InitAux]
  /\ DbReady
  /\ photo = [s \in StaffIds |-> NoFile]
  /\ files = {}
  /\ ppc = [p \in PhotoProcs |-> "idle"]
  /\ preq = [p \in PhotoProcs |-> NoPhotoReq]
  /\ pstatus = [p \in PhotoProcs |-> 0]
  /\ pcalls = MaxPhotoCalls
  /\ pclock = 0

\* multer's filename: `${req.body.staffId || 'temp'}_${Date.now()}${ext}`; the
\* body's staffId is known to multer only if its field precedes the file.
FileNames(s, t) == {<<pre, t>> : pre \in (IF s = "" THEN {} ELSE {s}) \cup {"temp"}}

\* fs.existsSync(path) and then fs.unlinkSync(path)
Unlink(dir, f) == dir \ {f}

\* The answer of `SELECT photo FROM staff WHERE id = ?`, NoFile if no photo.
PhotoOf(s) == IF s \in StaffIds THEN photo[s] ELSE NoFile

\* A photo request arrives in slot p.
PhotoIssue(p, op, s, role, f) ==
  /\ ppc[p] = "idle"
  /\ pcalls > 0
  /\ pcalls' = pcalls - 1
  /\ preq' = [preq EXCEPT ![p] = [op |-> op, staffId |-> s, role |-> role, file |-> f]]

\* The handler in slot p responds.
PhotoRespond(p, status) ==
  /\ ppc' = [ppc EXCEPT ![p] = "idle"]
  /\ pstatus' = [pstatus EXCEPT ![p] = status]

\* The handler in slot p goes on to its next await.
PhotoGoto(p, l) ==
  /\ ppc' = [ppc EXCEPT ![p] = l]
  /\ UNCHANGED pstatus

\* upload.single('photo') stores the file, then the handler runs up to its
\* first await: the admin gate, the two 400s, getDB().
UploadBegin(p, s, role, hasFile, f) ==
  /\ PhotoIssue(p, "upload", s, role, IF hasFile THEN f ELSE NoFile)
  /\ files' = IF hasFile THEN files \cup {f} ELSE files
  /\ pclock' = IF hasFile THEN f[2] ELSE pclock
  /\ IF role # "admin" THEN PhotoRespond(p, 403)
     ELSE IF s = "" THEN PhotoRespond(p, 400)
     ELSE IF ~hasFile THEN PhotoRespond(p, 400)
     ELSE /\ ppc' = [ppc EXCEPT ![p] = "up_select"]
          /\ pstatus' = [pstatus EXCEPT ![p] = 0]
  /\ UNCHANGED photo
  /\ UNCHANGED <<avars, dbvars>>

\* SELECT photo FROM staff WHERE id = ?; the old file is unlinked if it exists.
UploadSelect(p) ==
  /\ ppc[p] = "up_select"
  /\ files' = IF PhotoOf(preq[p].staffId) # NoFile
              THEN Unlink(files, PhotoOf(preq[p].staffId)) ELSE files
  /\ PhotoGoto(p, "up_update")
  /\ UNCHANGED <<photo, preq, pcalls, pclock>>
  /\ UNCHANGED <<avars, dbvars>>

\* The SELECT throws: catch (deleteErr) only logs.
UploadSelectFails(p) ==
  /\ ppc[p] = "up_select"
  /\ PhotoGoto(p, "up_update")
  /\ UNCHANGED <<photo, files, preq, pcalls, pclock>>
  /\ UNCHANGED <<avars, dbvars>>

\* UPDATE staff SET photo = ? WHERE id = ?; affectedRows === 0 is a 404.
UploadUpdate(p) ==
  /\ ppc[p] = "up_update"
  /\ IF preq[p].staffId \notin StaffIds
     THEN /\ PhotoRespond(p, 404)
          /\ UNCHANGED photo
     ELSE /\ photo' = [photo EXCEPT ![preq[p].staffId] = preq[p].file]
          /\ PhotoGoto(p, "up_name")
  /\ UNCHANGED <<files, preq, pcalls, pclock>>
  /\ UNCHANGED <<avars, dbvars>>

\* catch (e): the uploaded file is unlinked if it exists, then the 500.
UploadCatch(p) ==
  /\ files' = Unlink(files, preq[p].file)
  /\ PhotoRespond(p, 500)
  /\ UNCHANGED <<photo, preq, pcalls, pclock>>
  /\ UNCHANGED <<avars, dbvars>>

\* The UPDATE throws.
UploadUpdateFails(p) ==
  /\ ppc[p] = "up_update"
  /\ UploadCatch(p)

\* SELECT name FROM staff WHERE id = ?; res.json({ success: true, ... })
UploadName(p) ==
  /\ ppc[p] = "up_name"
  /\ PhotoRespond(p, 200)
  /\ UNCHANGED <<photo, files, preq, pcalls, pclock>>
  /\ UNCHANGED <<avars, dbvars>>

\* The SELECT of the name throws.
UploadNameFails(p) ==
  /\ ppc[p] = "up_name"
  /\ UploadCatch(p)

\* The delete handler up to its first await: the admin gate, getDB(). The
\* route does not match an empty :staffId.
DeleteBegin(p, s, role) ==
  /\ s # ""
  /\ PhotoIssue(p, "delete", s, role, NoFile)
  /\ IF role # "admin" THEN PhotoRespond(p, 403)
     ELSE /\ ppc' = [ppc EXCEPT ![p] = "del_select"]
          /\ pstatus' = [pstatus EXCEPT ![p] = 0]
  /\ UNCHANGED <<photo, files, pclock>>
  /\ UNCHANGED <<avars, dbvars>>

\* SELECT photo FROM staff WHERE id = ?; no row is a 404; the file is unlinked.
DeleteSelect(p) ==
  /\ ppc[p] = "del_select"
  /\ IF preq[p].staffId \notin StaffIds
     THEN /\ PhotoRespond(p, 404)
          /\ UNCHANGED files
     ELSE /\ files' = IF PhotoOf(preq[p].staffId) # NoFile
                      THEN Unlink(files, PhotoOf(preq[p].staffId)) ELSE files
          /\ PhotoGoto(p, "del_update")
  /\ UNCHANGED <<photo, preq, pcalls, pclock>>
  /\ UNCHANGED <<avars, dbvars>>

\* UPDATE staff SET photo = NULL WHERE id = ?
DeleteUpdate(p) ==
  /\ ppc[p] = "del_update"
  /\ photo' = [photo EXCEPT ![preq[p].staffId] = NoFile]
  /\ PhotoGoto(p, "del_name")
  /\ UNCHANGED <<files, preq, pcalls, pclock>>
  /\ UNCHANGED <<avars, dbvars>>

\* SELECT name FROM staff WHERE id = ?; res.json({ success: true, ... })
DeleteName(p) ==
  /\ ppc[p] = "del_name"
  /\ PhotoRespond(p, 200)
  /\ UNCHANGED <<photo, files, preq, pcalls, pclock>>
  /\ UNCHANGED <<avars, dbvars>>

\* One of the three statements of the delete handler throws: catch (e), the 500.
DeleteFails(p) ==
  /\ ppc[p] \in {"del_select", "del_update", "del_name"}
  /\ PhotoRespond(p, 500)
  /\ UNCHANGED <<photo, files, preq, pcalls, pclock>>
  /\ UNCHANGED <<avars, dbvars>>

PhotoRoles == {"admin", "staff"}

PhotoIds == StaffIds \cup {UnknownId, ""}

NextP ==
  \/ \E p \in PhotoProcs, s \in PhotoIds, role \in PhotoRoles, hasFile \in BOOLEAN :
       \E t \in {pclock, pclock + 1} : \E f \in FileNames(s, t) :
         t <= MaxStamp /\ UploadBegin(p, s, role, hasFile, f)
  \/ \E p \in PhotoProcs : UploadSelect(p)
  \/ \E p \in PhotoProcs : UploadSelectFails(p)
  \/ \E p \in PhotoProcs : UploadUpdate(p)
  \/ \E p \in PhotoProcs : UploadUpdateFails(p)
  \/ \E p \in PhotoProcs : UploadName(p)
  \/ \E p \in PhotoProcs : UploadNameFails(p)
  \/ \E p \in PhotoProcs, s \in PhotoIds, role \in PhotoRoles : DeleteBegin(p, s, role)
  \/ \E p \in PhotoProcs : DeleteSelect(p)
  \/ \E p \in PhotoProcs : DeleteUpdate(p)
  \/ \E p \in PhotoProcs : DeleteName(p)
  \/ \E p \in PhotoProcs : DeleteFails(p)

SpecP == InitP /\ [][NextP]_vars

\* ------------------------------------------------------------ properties
Done(p, op) == pc[p] = "done" /\ req[p].op = op /\ req[p].staffId \in StaffIds

\* Two slots hold answered requests of the same kind that overlapped.
Overlapped(p, q, op) ==
  /\ p # q
  /\ Done(p, op) /\ Done(q, op)
  /\ q \in aux[p].conc /\ p \in aux[q].conc

\* C1: for every staffId whose calls ran one after the other, at most one
\* attendance record with check_out NULL exists in every reachable state (the
\* date may advance between calls).
C1_AtMostOneOpenShift ==
  \A s \in StaffIds : ~overlap[s] => Cardinality(OpenRecords(s)) <= 1

\* C2: in every reachable state no record with check_out set holds a break
\* entry without an end.
C2_ClosedHasNoActiveBreak ==
  \A r \in attendance :
    r.check_out # SqlNull => ~HasActiveBreak(ParseBreaks(r.breaks))

\* C3: of two overlapping StartBreak requests for one staffId, both issued while
\* its open shift has no active break, exactly one succeeds and the other is
\* answered AlreadyOnBreak.
C3_StartBreakLinearizable ==
  \A p, q \in Procs :
    ( /\ Overlapped(p, q, "break_start")
      /\ req[p].staffId = req[q].staffId
      /\ aux[p].openNoBreak /\ aux[q].openNoBreak )
    => {resp[p].kind, resp[q].kind} = {"ok", "AlreadyOnBreak"}

\* C4: of two overlapping CheckOut requests for one staffId, both issued while it
\* has exactly one open record, exactly one succeeds, the other is answered
\* NoOpenShift, and check_out is written once.
C4_CheckOutLinearizable ==
  \A p, q \in Procs :
    ( /\ Overlapped(p, q, "checkout")
      /\ req[p].staffId = req[q].staffId
      /\ aux[p].oneOpen /\ aux[q].oneOpen )
    => /\ {resp[p].kind, resp[q].kind} = {"ok", "NoOpenShift"}
       /\ aux[p].wrote # aux[q].wrote

\* C5: two overlapping CheckIn requests for distinct staffIds, each issued with
\* no record for its staffId and date and with no other request of its staffId
\* in flight, both succeed and each creates its record.
C5_IndependentCheckIns ==
  \A p, q \in Procs :
    ( /\ Overlapped(p, q, "checkin")
      /\ req[p].staffId # req[q].staffId
      /\ aux[p].noRecord /\ aux[q].noRecord
      /\ aux[p].alone /\ aux[q].alone )
    => /\ resp[p].kind = "ok" /\ resp[q].kind = "ok"
       /\ aux[p].inserted /\ aux[q].inserted

\* C6: a CheckIn issued after a CheckIn for the same staffId and date has
\* succeeded is answered AlreadyCheckedIn and inserts no row, whether the first
\* shift is open or closed.
C6_DailyUniqueness ==
  \A p \in Procs :
    (req[p].op = "checkin" /\ aux[p].prior)
    => /\ ~aux[p].passed
       /\ ~aux[p].inserted
       /\ pc[p] = "done" => resp[p].kind = "AlreadyCheckedIn"

C6_Witness ==
  \E p \in Procs :
    /\ Done(p, "checkin") /\ aux[p].prior
    /\ resp[p].kind = "AlreadyCheckedIn"
    /\ \E r \in Existing(req[p].staffId, aux[p].today) : r.check_out # SqlNull

\* C7: of two overlapping CheckIn requests for one staffId and date, issued with
\* no record for that pair, exactly one inserts a row and the other is answered
\* AlreadyCheckedIn.
C7_RacingCheckInRejected ==
  \A p, q \in Procs :
    ( /\ Overlapped(p, q, "checkin")
      /\ req[p].staffId = req[q].staffId
      /\ aux[p].today = aux[q].today
      /\ aux[p].noRecord /\ aux[q].noRecord )
    => /\ aux[p].inserted # aux[q].inserted
       /\ aux[p].inserted => resp[q].kind = "AlreadyCheckedIn"
       /\ aux[q].inserted => resp[p].kind = "AlreadyCheckedIn"

\* C8: in every reachable state at most one attendance row exists for each
\* (staff_id, date) pair.
C8_RecordUniqueness ==
  \A r1, r2 \in attendance :
    (r1.staff_id = r2.staff_id /\ r1.date = r2.date) => r1.id = r2.id

\* A second INSERT for a pair that has a row was attempted and refused.
C8_Witness ==
  \E p \in Procs :
    /\ Done(p, "checkin")
    /\ resp[p].kind = "Infra" /\ resp[p].details = "dup_staff_date"
    /\ Existing(req[p].staffId, aux[p].today) # {}

\* C9: the UPDATE of a CheckOut persists, for every break entry that was active
\* in the record it loaded, an entry with end set and auto_ended true, and its
\* response has breaks_auto_ended true exactly when the loaded record had an
\* active entry.
C9_CheckOutAutoClose ==
  [][\A p \in Procs :
       /\ (pc[p] = "co_update" /\ pc'[p] = "co_name") =>
            \E r \in attendance' :
              /\ r.id = loc[p].record.id
              /\ r.check_out # SqlNull
              /\ LET old == ParseBreaks(loc[p].record.breaks)
                     new == ParseBreaks(r.breaks) IN
                   /\ Len(new) = Len(old)
                   /\ \A i \in 1..Len(old) :
                        IsActive(old[i]) =>
                          /\ "end" \in DOMAIN new[i]
                          /\ "auto_ended" \in DOMAIN new[i]
                          /\ new[i].auto_ended = TRUE
                          /\ new[i].start = old[i].start
       /\ (pc[p] = "co_name" /\ pc'[p] = "done") =>
            /\ resp'[p].kind = "ok"
            /\ resp'[p].breaks_auto_ended =
                 HasActiveBreak(ParseBreaks(loc[p].record.breaks))
    ]_vars

C9_Witness ==
  \E p \in Procs :
    /\ Done(p, "checkout")
    /\ resp[p].kind = "ok" /\ resp[p].breaks_auto_ended
    /\ \E r \in attendance :
         /\ r.staff_id = req[p].staffId
         /\ r.check_out # SqlNull
         /\ \E i \in 1..Len(ParseBreaks(r.breaks)) :
              "auto_ended" \in DOMAIN ParseBreaks(r.breaks)[i]

\* The calls of staffId s so far are exactly ops, one after the other, all
\* successful.
Ran(s, ops) ==
  /\ ~overlap[s]
  /\ Busy(s) = {}
  /\ Len(trace[s]) = Len(ops)
  /\ \A i \in 1..Len(ops) : trace[s][i].op = ops[i] /\ trace[s][i].kind = "ok"

\* C10: after CheckIn, StartBreak, CheckOut on one staffId the checkout reports
\* breaks_auto_ended and the sole break entry's end equals the record's
\* check_out.
C10_AutoEndAtCheckOutTime ==
  \A s \in StaffIds :
    Ran(s, <<"checkin", "break_start", "checkout">>)
    => /\ trace[s][3].breaks_auto_ended
       /\ \A r \in attendance :
            r.staff_id = s =>
              LET brks == ParseBreaks(r.breaks) IN
                /\ Len(brks) = 1
                /\ "end" \in DOMAIN brks[1]
                /\ r.check_out = SqlTime(brks[1].end)

\* The request in slot p changed the attendance table.
Committed(p) == aux[p].wrote \/ aux[p].inserted

\* C11: a call of CheckIn, CheckOut, StartBreak or EndBreak that is answered with
\* a failure has changed nothing in the attendance table, also when the
\* statement that failed is the display-name lookup; a call that changed the
\* table is answered success.
C11_AllOrNothing ==
  \A p \in Procs :
    (pc[p] = "done" /\ req[p].staffId \in StaffIds /\ Committed(p))
    => resp[p].kind = "ok"

\* C12: a StartBreak issued while the staffId's open record holds an active
\* break, and overlapped by no other request of that staffId, writes nothing
\* and is answered AlreadyOnBreak.
C12_BreakMutualExclusion ==
  \A p \in Procs :
    (req[p].op = "break_start" /\ aux[p].onBreak /\ aux[p].alone)
    => /\ ~aux[p].wrote
       /\ pc[p] = "done" => resp[p].kind = "AlreadyOnBreak"

C12_Witness ==
  \E p \in Procs :
    /\ Done(p, "break_start") /\ aux[p].onBreak /\ aux[p].alone
    /\ resp[p].kind = "AlreadyOnBreak"
    /\ OnBreak(req[p].staffId)

\* The active entries of a stored breaks value.
ActiveEntries(r) ==
  {i \in 1..Len(ParseBreaks(r.breaks)) : IsActive(ParseBreaks(r.breaks)[i])}

\* C13: in every reachable state every attendance record holds at most one
\* break entry without an end.
C13_AtMostOneActiveBreak ==
  \A r \in attendance : Cardinality(ActiveEntries(r)) <= 1

\* Two overlapping StartBreak requests both succeeded on a record.
C13_Witness ==
  \E p, q \in Procs :
    /\ Overlapped(p, q, "break_start")
    /\ req[p].staffId = req[q].staffId
    /\ resp[p].kind = "ok" /\ resp[q].kind = "ok"
    /\ \E r \in attendance :
         r.staff_id = req[p].staffId /\ Cardinality(ActiveEntries(r)) = 1

BreakOps == {"checkout", "break_start", "break_end"}

\* C14: a CheckOut, StartBreak or EndBreak issued for a staffId that has no record
\* with check_out NULL, and overlapped by no other request of that staffId,
\* changes no row and is answered NoOpenShift.
C14_NoOpenShift ==
  \A p \in Procs :
    (req[p].op \in BreakOps /\ aux[p].noOpen /\ aux[p].alone)
    => /\ ~Committed(p)
       /\ pc[p] = "done" => resp[p].kind = "NoOpenShift"

\* The staffId has a closed record and the call was refused.
C14_Witness ==
  \E p \in Procs :
    /\ pc[p] = "done" /\ req[p].op \in BreakOps
    /\ aux[p].noOpen /\ aux[p].alone
    /\ resp[p].kind = "NoOpenShift"
    /\ \E r \in attendance : r.staff_id = req[p].staffId /\ r.check_out # SqlNull

PreconditionErrors ==
  {"AlreadyCheckedIn", "NoOpenShift", "AlreadyOnBreak", "NoActiveBreak"}

\* C15: an EndBreak issued while the staffId's open record holds no active break,
\* and overlapped by no other request of that staffId, writes nothing and is
\* answered NoActiveBreak; a call answered with one of the four precondition
\* errors has written nothing.
C15_NoActiveBreak ==
  \A p \in Procs :
    /\ (req[p].op = "break_end" /\ aux[p].openNoBreak /\ aux[p].alone)
       => /\ ~aux[p].wrote
          /\ pc[p] = "done" => resp[p].kind = "NoActiveBreak"
    /\ (pc[p] = "done" /\ resp[p].kind \in PreconditionErrors) => ~Committed(p)

C15_Witness ==
  \E p \in Procs :
    /\ Done(p, "break_end") /\ aux[p].openNoBreak /\ aux[p].alone
    /\ resp[p].kind = "NoActiveBreak"

SelectLabels == {"co_select", "bs_select", "be_select"}
UpdateLabels == {"co_update", "bs_update", "be_update"}

\* C16: the SELECT of CheckOut, StartBreak and EndBreak yields, among the
\* staffId's records with check_out NULL, one with the latest check_in, whatever
\* its date, and NoOpenShift only when there is none; the UPDATE that follows
\* changes no other row.
C16_OpenRecordLookup ==
  [][\A p \in Procs :
       /\ (pc[p] \in SelectLabels /\ pc'[p] # pc[p]) =>
            LET open == {r \in attendance :
                           r.staff_id = req[p].staffId /\ r.check_out = SqlNull} IN
              IF open = {}
              THEN pc'[p] = "done" /\ resp'[p].kind = "NoOpenShift"
              ELSE /\ pc'[p] \in {"co_map", "bs_check", "be_check"}
                   /\ loc'[p].record \in open
                   /\ \A o \in open : o.check_in[1] <= loc'[p].record.check_in[1]
       /\ (pc[p] \in UpdateLabels /\ pc'[p] # pc[p]) =>
            \A r \in attendance : r.id # loc[p].record.id => r \in attendance'
    ]_vars

\* A staffId had two open records and the later one was closed, on a later date
\* than the open one's.
C16_Witness ==
  \E r1, r2 \in attendance :
    /\ r1.staff_id = r2.staff_id
    /\ r1.check_out = SqlNull /\ r2.check_out # SqlNull
    /\ r1.check_in[1] < r2.check_in[1]
    /\ r1.date < r2.date

\* C17: once a record's check_out is set, no step changes its check_in,
\* check_out or breaks.
C17_ClosedIsTerminal ==
  [][\A r \in attendance : r.check_out # SqlNull => r \in attendance']_vars

\* C18: no step removes a persisted break entry of a record or changes its
\* start: the breaks of a record after a step hold, position by position, the
\* starts they held before.
C18_BreaksAppendOnly ==
  [][\A r \in attendance :
       \E r2 \in attendance' :
         /\ r2.id = r.id
         /\ LET old == ParseBreaks(r.breaks)
                new == ParseBreaks(r2.breaks) IN
              /\ Len(new) >= Len(old)
              /\ \A i \in 1..Len(old) : new[i].start = old[i].start
    ]_vars

\* C19: whatever the stored breaks value (missing, empty, unparsable, no array,
\* an array of elements that are no break objects), CheckOut, StartBreak and
\* EndBreak end with success or a precondition error, never with an
\* infrastructure failure.
C19_MalformedBreaksTolerated ==
  \A p \in Procs :
    ( /\ pc[p] = "done" /\ req[p].op \in BreakOps
      /\ req[p].staffId \in StaffIds /\ req[p].role # "staff" )
    => resp[p].kind \in {"ok"} \cup PreconditionErrors

\* C20: the break_duration_minutes a successful EndBreak reports is
\* floor((end - start) / 60 s) for the start it loaded and the break_end it
\* returns, and is not negative; a break of exactly five minutes gives 5.
C20_BreakDuration ==
  /\ \A T \in 0..MaxTime : BreakMinutes(ToMs(T), ToMs(T) + 5 * MsPerMinute) = 5
  /\ [][\A p \in Procs :
          (pc[p] = "be_name" /\ pc'[p] = "done" /\ resp'[p].kind = "ok") =>
            LET d == ToMs(resp'[p].time)
                       - ToMs(loc[p].breaks[loc[p].activeBreakIndex].start)
                m == resp'[p].break_duration_minutes IN
              /\ m * MsPerMinute <= d
              /\ d < (m + 1) * MsPerMinute
              /\ m >= 0
       ]_vars

\* An EndBreak reported a break of one whole minute, and one of less.
C20_Witness ==
  \E p \in Procs :
    /\ Done(p, "break_end") /\ resp[p].kind = "ok"
    /\ resp[p].break_duration_minutes = 1
    /\ \E r \in attendance :
         /\ r.staff_id = req[p].staffId
         /\ \E i \in 1..Len(ParseBreaks(r.breaks)) :
              LET b == ParseBreaks(r.breaks)[i] IN
                /\ "end" \in DOMAIN b
                /\ b.end = resp[p].time
                /\ ToMs(b.end) - ToMs(b.start) >= MsPerMinute

\* The calls of staffId s so far are exactly ops, one after the other, whatever
\* their outcomes.
Called(s, ops) ==
  /\ ~overlap[s]
  /\ Busy(s) = {}
  /\ Len(trace[s]) = Len(ops)
  /\ \A i \in 1..Len(ops) : trace[s][i].op = ops[i]

\* The record of a full shift with one break.
FullShiftRecord(r) ==
  /\ r.check_in # SqlNull
  /\ r.check_out # SqlNull
  /\ Len(ParseBreaks(r.breaks)) = 1
  /\ DOMAIN ParseBreaks(r.breaks)[1] = {"start", "end"}

\* C21: after the calls CheckIn, StartBreak, EndBreak, CheckOut on one staffId,
\* made one after the other, every call has succeeded, the checkout response has
\* breaks_auto_ended false, and the staffId's only record has check_in and
\* check_out set and one break entry with start and end and no auto_ended.
C21_FullShift ==
  \A s \in StaffIds :
    Called(s, <<"checkin", "break_start", "break_end", "checkout">>)
    => /\ \A i \in 1..4 : trace[s][i].kind = "ok"
       /\ ~trace[s][4].breaks_auto_ended
       /\ Cardinality(AllRecords(s)) = 1
       /\ \A r \in AllRecords(s) : FullShiftRecord(r)

C21_Witness ==
  \E s \in StaffIds :
    /\ Called(s, <<"checkin", "break_start", "break_end", "checkout">>)
    /\ trace[s][4].kind = "ok"
    /\ \E r \in attendance : r.staff_id = s /\ FullShiftRecord(r)

CheckInLabels == {"ci_select", "ci_maxid", "ci_insert", "ci_name"}

\* C22: the INSERT of a CheckIn adds exactly one row, with the request's staffId,
\* the date the handler read, check_in the time of the INSERT, check_out NULL and
\* no breaks, and changes no other row; no other step of the handler changes the
\* table, and a CheckIn answered success has made the INSERT.
C22_CheckInEffect ==
  [][\A p \in Procs :
       (pc[p] \in CheckInLabels /\ pc'[p] # pc[p]) =>
         /\ IF pc[p] = "ci_insert" /\ pc'[p] = "ci_name"
            THEN \E r \in attendance' :
                   /\ r \notin attendance
                   /\ attendance' = attendance \cup {r}
                   /\ r.staff_id = req[p].staffId
                   /\ r.date = loc[p].today
                   /\ r.check_in = SqlTime(now)
                   /\ r.check_out = SqlNull
                   /\ ParseBreaks(r.breaks) = <<>>
            ELSE attendance' = attendance
         /\ (pc'[p] = "done" /\ resp'[p].kind = "ok") => aux[p].inserted
    ]_vars

\* A CheckIn succeeded for a staffId that had a record of an earlier date, next
\* to a record of another staffId.
C22_Witness ==
  \E p \in Procs :
    /\ Done(p, "checkin") /\ resp[p].kind = "ok" /\ aux[p].inserted
    /\ \E r \in attendance :
         /\ r.staff_id = req[p].staffId /\ r.date = aux[p].today
         /\ r.check_out = SqlNull /\ r.breaks = NullBreaks
    /\ \E r \in attendance : r.staff_id = req[p].staffId /\ r.date < aux[p].today
    /\ \E r \in attendance : r.staff_id # req[p].staffId

\* C23: the UPDATE of a StartBreak leaves the record it selected with the breaks
\* it held just before and one more entry {start: now} at the end, and with
\* check_in and check_out as they were; the response carries that start.
C23_StartBreakEffect ==
  [][\A p \in Procs :
       /\ (pc[p] = "bs_update" /\ pc'[p] = "bs_name") =>
            \E r \in attendance, r2 \in attendance' :
              /\ r.id = loc[p].record.id /\ r2.id = r.id
              /\ ParseBreaks(r2.breaks) =
                   Append(ParseBreaks(r.breaks), [start |-> loc[p].now])
              /\ r2.check_in = r.check_in
              /\ r2.check_out = r.check_out
       /\ (pc[p] = "bs_name" /\ pc'[p] = "done") =>
            /\ resp'[p].kind = "ok"
            /\ resp'[p].time = loc[p].breaks[Len(loc[p].breaks)].start
    ]_vars

\* C24: the UPDATE of an EndBreak sets end = now on exactly one entry of the
\* record it selected, an entry that was active just before, leaves every other
\* entry, the number and order of entries, check_in and check_out as they were,
\* and leaves the record without an active break.
C24_EndBreakEffect ==
  [][\A p \in Procs :
       (pc[p] = "be_update" /\ pc'[p] = "be_name") =>
         \E r \in attendance, r2 \in attendance' :
           /\ r.id = loc[p].record.id /\ r2.id = r.id
           /\ r2.check_in = r.check_in
           /\ r2.check_out = r.check_out
           /\ LET old == ParseBreaks(r.breaks)
                  new == ParseBreaks(r2.breaks) IN
                /\ Len(new) = Len(old)
                /\ \E i \in 1..Len(old) :
                     /\ IsActive(old[i])
                     /\ DOMAIN new[i] = DOMAIN old[i] \cup {"end"}
                     /\ new[i].start = old[i].start
                     /\ new[i].end = loc[p].now
                     /\ \A j \in 1..Len(old) : j # i => new[j] = old[j]
                /\ \A j \in 1..Len(new) : ~IsActive(new[j])
    ]_vars

\* C25: the UPDATE of a CheckOut changes only the record it selected, keeps its
\* check_in, and keeps, position by position, every break entry whose end was
\* set just before; every other row stays as it was and no row is added.
C25_CheckOutFrame ==
  [][\A p \in Procs :
       (pc[p] = "co_update" /\ pc'[p] = "co_name") =>
         /\ \A o \in attendance : o.id # loc[p].record.id => o \in attendance'
         /\ Cardinality(attendance') = Cardinality(attendance)
         /\ \E r \in attendance, r2 \in attendance' :
              /\ r.id = loc[p].record.id /\ r2.id = r.id
              /\ r2.check_in = r.check_in
              /\ LET old == ParseBreaks(r.breaks)
                     new == ParseBreaks(r2.breaks) IN
                   \A i \in 1..Len(old) :
                     "end" \in DOMAIN old[i] => (i <= Len(new) /\ new[i] = old[i])
    ]_vars

Outcomes == {"ok", "Infra"} \cup PreconditionErrors

\* C26: every request that has entered a handler is eventually answered; its
\* handler can always take its next step, whatever the other slot is doing; a
\* response, once sent, stays until the slot takes a new request; and a request
\* that carried a staffId and passed the admin gate is answered success, one of the four precondition
\* errors, or an infrastructure failure.
C26_Termination ==
  /\ \A p \in Procs : [](InFlight(p) => <>(pc[p] = "done"))
  /\ [](\A p \in Procs : InFlight(p) => ENABLED HandlerStep(p))
  /\ [](\A p \in Procs :
          (pc[p] = "done" /\ req[p].staffId \in StaffIds /\ req[p].role # "staff")
          => resp[p].kind \in Outcomes)
  /\ [][\A p \in Procs :
          resp'[p] # resp[p] =>
            \/ InFlight(p) /\ pc'[p] = "done"
            \/ ~InFlight(p) /\ nreq' = nreq - 1
       ]_vars

\* Two overlapping requests were both answered, one of them with a failure of
\* the store.
C26_Witness ==
  \E p, q \in Procs :
    /\ p # q
    /\ pc[p] = "done" /\ pc[q] = "done"
    /\ q \in aux[p].conc
    /\ resp[p].kind = "Infra" /\ resp[p].details = "store_error"
    /\ resp[q].kind = "ok"

\* C27: a StartBreak or EndBreak request of a principal whose role is not admin
\* never enters the handler's store calls: it is answered Forbidden in the step
\* that takes it, and that step leaves the attendance table as it was, whatever
\* the staffId and its records.
C27_AdminGate ==
  /\ [](\A p \in Procs :
          req[p].role = "staff"
          => pc[p] = "done" /\ resp[p].kind = "Forbidden" /\ ~Committed(p))
  /\ [][\A p \in Procs :
          (nreq' # nreq /\ FirstFree(p) /\ req'[p].role = "staff")
          => /\ attendance' = attendance
             /\ pc'[p] = "done"
             /\ resp'[p].kind = "Forbidden"
       ]_vars

\* A request of a non-admin principal for a staffId whose open record is on
\* break was refused and the record is still on break.
C27_Witness ==
  \E p \in Procs :
    /\ pc[p] = "done" /\ req[p].op = "break_end" /\ req[p].role = "staff"
    /\ req[p].staffId \in StaffIds
    /\ resp[p].kind = "Forbidden"
    /\ \E r \in attendance :
         /\ r.staff_id = req[p].staffId /\ r.check_out = SqlNull
         /\ Cardinality(ActiveEntries(r)) = 1

\* Only the last entry of brks may be active, every entry starts no earlier than
\* the entry before it ended, and every closed entry ends no earlier than it
\* started.
Ordered(brks) ==
  /\ \A i \in 1..(Len(brks) - 1) : ~IsActive(brks[i])
  /\ \A i \in 2..Len(brks) : brks[i - 1].end <= brks[i].start
  /\ \A i \in 1..Len(brks) : "end" \in DOMAIN brks[i] => brks[i].start <= brks[i].end

\* C28: with calls made one after the other, the breaks of every record are
\* Ordered in every reachable state, a StartBreak writes only to a record that
\* holds no active break and leaves its last entry active, and an EndBreak writes
\* only to a record whose last entry is active and leaves none active: their
\* successes alternate on a record.
C28_BreakOrdering ==
  /\ [](\A r \in attendance : Ordered(ParseBreaks(r.breaks)))
  /\ [][\A p \in Procs :
          /\ (pc[p] = "bs_update" /\ pc'[p] = "bs_name") =>
               \E r \in attendance, r2 \in attendance' :
                 /\ r.id = loc[p].record.id /\ r2.id = r.id
                 /\ ActiveEntries(r) = {}
                 /\ ActiveEntries(r2) = {Len(ParseBreaks(r2.breaks))}
          /\ (pc[p] = "be_update" /\ pc'[p] = "be_name") =>
               \E r \in attendance, r2 \in attendance' :
                 /\ r.id = loc[p].record.id /\ r2.id = r.id
                 /\ ActiveEntries(r) = {Len(ParseBreaks(r.breaks))}
                 /\ ActiveEntries(r2) = {}
       ]_vars

\* A record holds a finished break and, started later, an active one.
C28_Witness ==
  \E r \in attendance :
    LET brks == ParseBreaks(r.breaks) IN
      /\ Len(brks) = 2
      /\ "end" \in DOMAIN brks[1]
      /\ brks[1].start < brks[1].end
      /\ brks[1].end < brks[2].start
      /\ IsActive(brks[2])

\* C29: in every reachable state every break entry starts no earlier than its
\* record's check_in, and in a record with check_out set every entry's start
\* and end are no later than check_out.
C29_BreaksInsideShift ==
  \A r \in attendance :
    LET brks == ParseBreaks(r.breaks) IN
      \A i \in 1..Len(brks) :
        /\ r.check_in[1] <= brks[i].start
        /\ r.check_out # SqlNull =>
             /\ brks[i].start <= r.check_out[1]
             /\ "end" \in DOMAIN brks[i] => brks[i].end <= r.check_out[1]

\* C30: a getDB call returns the pool exactly when an initDB call has completed
\* successfully on it and no closeDB has completed since; before any initDB,
\* after an initDB whose connection test threw and after closeDB it throws.
C30_StoreHandleLifecycle ==
  \A c \in DbProcs :
    dret[c].call = "getDB" => (dret[c].threw <=> dret[c].life # "ready")

\* C31: no more than one pool is created between one closeDB call and the
\* next, and every initDB call that returns yields a pool, the one created last.
C31_SinglePool ==
  /\ sinceClose <= 1
  /\ \A c \in DbProcs :
       (dret[c].call = "initDB" /\ ~dret[c].threw) => dret[c].val # 0

\* C32: once no photo request is in flight, every staff row's photo is null or
\* names a file of the uploads directory, and no upload answered with an error
\* has left its file in the directory.
PhotoQuiet == \A p \in PhotoProcs : ppc[p] = "idle"

C32_PhotoReferenceIntegrity ==
  /\ PhotoQuiet => \A s \in StaffIds : photo[s] = NoFile \/ photo[s] \in files
  /\ \A p \in PhotoProcs :
       (ppc[p] = "idle" /\ pstatus[p] >= 400 /\ preq[p].file # NoFile)
         => preq[p].file \notin files
====
